---- MODULE Spec2Model ----
(***************************************************************************)
(* Giophantus prototype (MAC_Lab1): finite-field arithmetic, polynomial    *)
(* ring F_q[t]/(t^n - 1), key generation, encryption and decryption.       *)
(*                                                                         *)
(* Two programs live in the repository: the modular prototype with the     *)
(* free functions mod/add/mul/sub, keygen, encrypt and decrypt, and        *)
(* main.cpp with FieldArithmetic, RandomPolynomialGenerator and            *)
(* GiophantusKeyGen.  Definitions of main.cpp whose name clashes with the  *)
(* prototype's carry the suffix Main.                                      *)
(***************************************************************************)
EXTENDS Integers, Sequences, FiniteSets, TLC

(***************************************************************************)
(* Bounds of the model.  `int' is IntBits wide (32 in the build); the      *)
(* parameter sets below are scaled so that IntBits relates to q as 32 bits *)
(* relate to the presets: no product or sum of field elements overflows.   *)
(***************************************************************************)
IntBits == 6
MaxLenA == 3
MaxLenB == 2
MaxWideLen == 3
MaxMsgLen == 2
MaxCtLen == 3

IntMax == 2^(IntBits - 1) - 1
IntMin == -(2^(IntBits - 1))
IntRange == IntMin..IntMax

\* main.cpp:10
MODULO == 17

VARIABLES
    ub,             \* value left by a signed operation that overflowed
    P,              \* the ambient parameters q, n, l, dX, dr, mlen
    pc,             \* position of the running program
    fa, fb, fq,     \* arguments of a field-arithmetic call
    fop, fres,      \* the call made and its return value
    A, B,           \* polynomial operands
    sum, product, prodStatus,
    rsum, rprod,    \* mod_tn of sum and product
    hsum, hprod,    \* mod_tn of the sum / product of the reduced operands
    r, e, ctAB,     \* encrypt(A, B, P): the draws and the returned ciphertext
    reduced, reducedTwice,
    validator,      \* the public-key validator in use
    ux, uy, X,      \* the key pair
    message, ciphertext, encStatus,
    c_in, decrypted, decStatus,
    mparams, key,   \* main.cpp: test_keygen
    p1, p2, msum, mproduct   \* main.cpp: test_polynomial_operations

fieldVars == <<fa, fb, fq, fop, fres>>
polyVars == <<A, B, sum, product, prodStatus, rsum, rprod, hsum, hprod, r, e,
              ctAB, reduced, reducedTwice>>
protoVars == <<validator, ux, uy, X, message, ciphertext, encStatus, c_in,
               decrypted, decStatus>>
mainVars == <<mparams, key, p1, p2, msum, mproduct>>
vars == <<ub, P, pc, fieldVars, polyVars, protoVars, mainVars>>

(***************************************************************************)
(* Parameter sets.  The presets of the source (q=17,n=11,l=4,...) make the *)
(* key space far too large to enumerate; these keep their shape: q prime,  *)
(* 1 < l < q, n >= 2, mlen <= n.                                           *)
(***************************************************************************)
paramA == [q |-> 5, n |-> 2, l |-> 3, dX |-> 0, dr |-> 0, mlen |-> 1]
paramB == [q |-> 3, n |-> 3, l |-> 2, dX |-> 1, dr |-> 1, mlen |-> 2]
ParamSets == {paramA, paramB}

mainParam == [modulo |-> 3, degree |-> 1, noise_bound |-> 2, block_size |-> 4]
MainParamSets == {mainParam}

\* the globals the prototype's routines read
q == P.q
n == P.n
l == P.l
dX == P.dX
dr == P.dr

(***************************************************************************)
(* int arithmetic.  A signed operation whose mathematical result does not  *)
(* fit in int is undefined behaviour: it leaves ub, any int.               *)
(***************************************************************************)
IntAdd(x, y) == IF (x + y) \in IntRange THEN x + y ELSE ub
IntSub(x, y) == IF (x - y) \in IntRange THEN x - y ELSE ub
IntMul(x, y) == IF (x * y) \in IntRange THEN x * y ELSE ub

\* the % of C++: the remainder has the sign of the dividend (p > 0)
CRem(a, p) == IF a >= 0 THEN a % p ELSE -((-a) % p)

(***************************************************************************)
(* Field arithmetic of the prototype                                       *)
(***************************************************************************)
mod(a, p) == CRem(IntAdd(CRem(a, p), p), p)

add(a, b, p) == mod(IntAdd(a, b), p)

mul(a, b, p) == mod(IntMul(a, b), p)

sub(a, b, p) == mod(IntSub(a, b), p)

(***************************************************************************)
(* Field arithmetic of main.cpp                                            *)
(***************************************************************************)
FieldArithmetic_mod(a, modulo) == CRem(IntAdd(CRem(a, modulo), modulo), modulo)

FieldArithmetic_add(a, b, modulo) == FieldArithmetic_mod(IntAdd(a, b), modulo)

FieldArithmetic_mul(a, b, modulo) == FieldArithmetic_mod(IntMul(a, b), modulo)

(***************************************************************************)
(* Polynomial of the prototype: coeffs, little-endian, index i of the code *)
(* is index i+1 of the sequence.                                           *)
(***************************************************************************)
Max(x, y) == IF x >= y THEN x ELSE y

\* coeffs.size() - 1 is computed in size_t and converted to int: -1 when empty
degree(coeffs) == Len(coeffs) - 1

RECURSIVE trim(_)
trim(coeffs) ==
    IF coeffs # <<>> /\ coeffs[Len(coeffs)] = 0
    THEN trim(SubSeq(coeffs, 1, Len(coeffs) - 1))
    ELSE coeffs

Polynomial_add(coeffs, other) ==
    [i \in 1..Max(Len(coeffs), Len(other)) |->
        add(IF i <= Len(coeffs) THEN coeffs[i] ELSE 0,
            IF i <= Len(other) THEN other[i] ELSE 0, q)]

\* size_t coeffs.size() + other.coeffs.size() - 1 wraps to SIZE_MAX when both
\* are empty, and std::vector's constructor throws std::length_error
MulThrows(coeffs, other) == Len(coeffs) + Len(other) = 0

\* operator* that assigns each term instead of accumulating it:
\* result[i + j] = mul(coeffs[i], other[j], q)
Polynomial_mul_assign(coeffs, other) ==
    [k \in 1..(Len(coeffs) + Len(other) - 1) |->
        LET last == IF k <= Len(coeffs) THEN k ELSE Len(coeffs)
        IN  IF Len(coeffs) = 0 \/ Len(other) = 0 THEN 0
            ELSE mul(coeffs[last], other[k + 1 - last], q)]

RECURSIVE MulInner(_, _, _, _, _)
MulInner(result, coeffs, other, i, j) ==
    IF j >= Len(other) THEN result
    ELSE MulInner([result EXCEPT ![i + j + 1] =
                      add(result[i + j + 1], mul(coeffs[i + 1], other[j + 1], q), q)],
                  coeffs, other, i, j + 1)

RECURSIVE MulOuter(_, _, _, _)
MulOuter(result, coeffs, other, i) ==
    IF i >= Len(coeffs) THEN result
    ELSE MulOuter(MulInner(result, coeffs, other, i, 0), coeffs, other, i + 1)

Polynomial_mul(coeffs, other) ==
    MulOuter([k \in 1..(Len(coeffs) + Len(other) - 1) |-> 0], coeffs, other, 0)

\* mod_tn with the fold index off by one: result[(i + 1) % n] += coeffs[i]
RECURSIVE ModTnShiftLoop(_, _, _)
ModTnShiftLoop(result, coeffs, i) ==
    IF i >= Len(coeffs) THEN result
    ELSE ModTnShiftLoop([result EXCEPT ![((i + 1) % n) + 1] =
                            add(result[((i + 1) % n) + 1], coeffs[i + 1], q)],
                        coeffs, i + 1)

mod_tn_shifted(coeffs) == ModTnShiftLoop([k \in 1..n |-> 0], coeffs, 0)

RECURSIVE ModTnLoop(_, _, _)
ModTnLoop(result, coeffs, i) ==
    IF i >= Len(coeffs) THEN result
    ELSE ModTnLoop([result EXCEPT ![(i % n) + 1] =
                       add(result[(i % n) + 1], coeffs[i + 1], q)],
                   coeffs, i + 1)

\* mod_tn that sizes its result by the input when the input is shorter than n
mod_tn_unpadded(coeffs) ==
    ModTnLoop([k \in 1..(IF Len(coeffs) < n THEN Len(coeffs) ELSE n) |-> 0], coeffs, 0)

mod_tn(coeffs) == ModTnLoop([k \in 1..n |-> 0], coeffs, 0)

(***************************************************************************)
(* Sampler, validator, encryption and decryption of the prototype          *)
(***************************************************************************)
\* the polynomials random_polynomial(degree, max_coeff) can return
random_polynomial(deg, max_coeff) == [1..(deg + 1) -> 0..(max_coeff - 1)]

is_irreducible(poly) == TRUE

\* the validator consulted by the retry loop: the placeholder of the source,
\* or the always-rejecting validator of the exhaustion test
Accepts(poly) == IF validator = "placeholder" THEN is_irreducible(poly) ELSE FALSE

\* encrypt with its two draws r and e made explicit
encrypt(msg, public_key, params, rr, ee) ==
    mod_tn(Polynomial_add(Polynomial_add(msg, mod_tn(Polynomial_mul(public_key, rr))), ee))

decrypt(ct, sx, sy) == [i \in 1..Len(ct) |-> mod(ct[i], l)]

(***************************************************************************)
(* main.cpp: Polynomial, RandomPolynomialGenerator, GiophantusKeyGen       *)
(***************************************************************************)
degreeMain(coeffs) == Len(coeffs) - 1

Polynomial_addMain(coeffs, other) ==
    [i \in 1..Max(Len(coeffs), Len(other)) |->
        FieldArithmetic_add(IF i <= Len(coeffs) THEN coeffs[i] ELSE 0,
                            IF i <= Len(other) THEN other[i] ELSE 0, MODULO)]

RECURSIVE MulInnerMain(_, _, _, _, _)
MulInnerMain(result, coeffs, other, i, j) ==
    IF j >= Len(other) THEN result
    ELSE MulInnerMain([result EXCEPT ![i + j + 1] =
                          FieldArithmetic_add(result[i + j + 1],
                              FieldArithmetic_mul(coeffs[i + 1], other[j + 1], MODULO),
                              MODULO)],
                      coeffs, other, i, j + 1)

RECURSIVE MulOuterMain(_, _, _, _)
MulOuterMain(result, coeffs, other, i) ==
    IF i >= Len(coeffs) THEN result
    ELSE MulOuterMain(MulInnerMain(result, coeffs, other, i, 0), coeffs, other, i + 1)

Polynomial_mulMain(coeffs, other) ==
    MulOuterMain([k \in 1..(Len(coeffs) + Len(other) - 1) |-> 0], coeffs, other, 0)

\* uniform_int_distribution<>(0, max_coeff) is inclusive of max_coeff
RandomPolynomialGenerator_generate(deg, max_coeff) == [1..(deg + 1) -> 0..max_coeff]

GiophantusKeyGen_generate(params) ==
    [ux : RandomPolynomialGenerator_generate(params.degree, params.noise_bound),
     uy : RandomPolynomialGenerator_generate(params.degree, params.noise_bound),
     X  : RandomPolynomialGenerator_generate(params.degree, params.modulo - 1)]

(***************************************************************************)
(* Values of the variables a program does not use                          *)
(***************************************************************************)
NoKey == [ux |-> <<>>, uy |-> <<>>, X |-> <<>>]

FieldIdle == fa = 0 /\ fb = 0 /\ fq = 2 /\ fop = "none" /\ fres = 0

PolyIdle ==
    /\ A = <<>> /\ B = <<>> /\ sum = <<>> /\ product = <<>> /\ prodStatus = "none"
    /\ rsum = <<>> /\ rprod = <<>> /\ hsum = <<>> /\ hprod = <<>>
    /\ r = <<>> /\ e = <<>> /\ ctAB = <<>> /\ reduced = <<>> /\ reducedTwice = <<>>

ProtoIdle ==
    /\ ux = <<>> /\ uy = <<>> /\ X = <<>>
    /\ message = <<>> /\ ciphertext = <<>> /\ encStatus = "none"
    /\ c_in = <<>> /\ decrypted = <<>> /\ decStatus = "none"

MainIdle ==
    /\ mparams = mainParam /\ key = NoKey
    /\ p1 = <<>> /\ p2 = <<>> /\ msum = <<>> /\ mproduct = <<>>

(***************************************************************************)
(* Input domains                                                           *)
(***************************************************************************)
Primes == {p \in 2..IntMax : \A d \in 2..(p - 1) : p % d # 0}

EdgeInts == {IntMin, -1, 0, 1, IntMax}

\* polynomials of length 0..maxlen over the field elements 0..k-1
Polys(maxlen, k) == UNION {[1..len -> 0..(k - 1)] : len \in 0..maxlen}

\* polynomials whose coefficients are arbitrary ints, not field elements
WideCoeffs == {IntMin, -1, 0, 2, IntMax}

WidePolys == UNION {[1..len -> WideCoeffs] : len \in 0..MaxWideLen}

(***************************************************************************)
(* FieldSpec: one call of a field-arithmetic routine on arbitrary ints     *)
(***************************************************************************)
FieldInit ==
    /\ ub \in IntRange /\ P = paramA /\ pc = "start"
    /\ fa \in IntRange /\ fb \in EdgeInts /\ fq \in Primes
    /\ fop = "none" /\ fres = 0
    /\ validator = "placeholder"
    /\ PolyIdle /\ ProtoIdle /\ MainIdle

FieldCall(name, value) ==
    /\ pc = "start"
    /\ pc' = "returned"
    /\ fop' = name
    /\ fres' = value
    /\ UNCHANGED <<ub, P, fa, fb, fq, polyVars, protoVars, mainVars>>

call_mod == FieldCall("mod", mod(fa, fq))

call_add == FieldCall("add", add(fa, fb, fq))

call_mul == FieldCall("mul", mul(fa, fb, fq))

call_sub == FieldCall("sub", sub(fa, fb, fq))

call_FieldArithmetic_mod == FieldCall("FieldArithmetic::mod", FieldArithmetic_mod(fa, fq))

call_FieldArithmetic_add == FieldCall("FieldArithmetic::add", FieldArithmetic_add(fa, fb, fq))

call_FieldArithmetic_mul == FieldCall("FieldArithmetic::mul", FieldArithmetic_mul(fa, fb, fq))

FieldNext ==
    \/ call_mod
    \/ call_add
    \/ call_mul
    \/ call_sub
    \/ call_FieldArithmetic_mod
    \/ call_FieldArithmetic_add
    \/ call_FieldArithmetic_mul

FieldSpec == FieldInit /\ [][FieldNext]_vars

(***************************************************************************)
(* ReduceSpec: mod_tn applied to a polynomial of arbitrary ints, and then  *)
(* to its own result                                                       *)
(***************************************************************************)
ReduceInit ==
    /\ ub \in IntRange /\ P \in ParamSets /\ pc = "start"
    /\ A \in WidePolys
    /\ B = <<>> /\ sum = <<>> /\ product = <<>> /\ prodStatus = "none"
    /\ rsum = <<>> /\ rprod = <<>> /\ hsum = <<>> /\ hprod = <<>>
    /\ r = <<>> /\ e = <<>> /\ ctAB = <<>> /\ reduced = <<>> /\ reducedTwice = <<>>
    /\ validator = "placeholder"
    /\ FieldIdle /\ ProtoIdle /\ MainIdle

Reduce ==
    /\ pc = "start"
    /\ reduced' = mod_tn(A)
    /\ pc' = "reduced"
    /\ UNCHANGED <<ub, P, fieldVars, A, B, sum, product, prodStatus, rsum, rprod,
                   hsum, hprod, r, e, ctAB, reducedTwice, protoVars, mainVars>>

ReduceAgain ==
    /\ pc = "reduced"
    /\ reducedTwice' = mod_tn(reduced)
    /\ pc' = "reducedTwice"
    /\ UNCHANGED <<ub, P, fieldVars, A, B, sum, product, prodStatus, rsum, rprod,
                   hsum, hprod, r, e, ctAB, reduced, protoVars, mainVars>>

ReduceNext == Reduce \/ ReduceAgain

ReduceSpec == ReduceInit /\ [][ReduceNext]_vars

(***************************************************************************)
(* PolySpec: the ring operations and encrypt applied to arbitrary          *)
(* polynomials A and B over the field, the empty polynomial included       *)
(***************************************************************************)
PolyInit ==
    /\ ub = 0   \* never read: no operation on field elements overflows
    /\ P \in ParamSets /\ pc = "start"
    /\ A \in Polys(MaxLenA, P.q)
    /\ B \in Polys(MaxLenB, P.q)
    /\ sum = <<>> /\ product = <<>> /\ prodStatus = "none"
    /\ rsum = <<>> /\ rprod = <<>> /\ hsum = <<>> /\ hprod = <<>>
    /\ r = <<>> /\ e = <<>> /\ ctAB = <<>> /\ reduced = <<>> /\ reducedTwice = <<>>
    /\ validator = "placeholder"
    /\ FieldIdle /\ ProtoIdle /\ MainIdle

PolyFrame == UNCHANGED <<ub, P, A, B, fieldVars, reduced, reducedTwice, protoVars, mainVars>>

\* sum = A + B
Add ==
    /\ pc = "start"
    /\ sum' = Polynomial_add(A, B)
    /\ pc' = "added"
    /\ PolyFrame
    /\ UNCHANGED <<product, prodStatus, rsum, rprod, hsum, hprod, r, e, ctAB>>

\* (A + B).mod_tn()
ReduceSum ==
    /\ pc = "added"
    /\ rsum' = mod_tn(sum)
    /\ pc' = "sumReduced"
    /\ PolyFrame
    /\ UNCHANGED <<sum, product, prodStatus, rprod, hsum, hprod, r, e, ctAB>>

\* (A.mod_tn() + B.mod_tn()).mod_tn()
ReducedOperandsSum ==
    /\ pc = "sumReduced"
    /\ hsum' = mod_tn(Polynomial_add(mod_tn(A), mod_tn(B)))
    /\ pc' = "sumCompared"
    /\ PolyFrame
    /\ UNCHANGED <<sum, product, prodStatus, rsum, rprod, hprod, r, e, ctAB>>

\* product = A * B; the exception leaves the program
Mul ==
    /\ pc = "start"
    /\ IF MulThrows(A, B)
       THEN /\ prodStatus' = "length_error"
            /\ product' = product
            /\ pc' = "terminated"
       ELSE /\ prodStatus' = "ok"
            /\ product' = Polynomial_mul(A, B)
            /\ pc' = "multiplied"
    /\ PolyFrame
    /\ UNCHANGED <<sum, rsum, rprod, hsum, hprod, r, e, ctAB>>

\* (A * B).mod_tn()
ReduceProduct ==
    /\ pc = "multiplied"
    /\ rprod' = mod_tn(product)
    /\ pc' = "productReduced"
    /\ PolyFrame
    /\ UNCHANGED <<sum, product, prodStatus, rsum, hsum, hprod, r, e, ctAB>>

\* (A.mod_tn() * B.mod_tn()).mod_tn(); mod_tn never returns an empty polynomial
ReducedOperandsProduct ==
    /\ pc = "productReduced"
    /\ hprod' = mod_tn(Polynomial_mul(mod_tn(A), mod_tn(B)))
    /\ pc' = "productCompared"
    /\ PolyFrame
    /\ UNCHANGED <<sum, product, prodStatus, rsum, rprod, hsum, r, e, ctAB>>

\* encrypt(A, B, P) with message A and public key B
EncryptAB ==
    /\ pc = "start"
    /\ \E rr \in random_polynomial(P.dr, P.q - 1) :
       \E ee \in random_polynomial(P.dX + P.dr, P.l - 1) :
          /\ r' = rr
          /\ e' = ee
          /\ ctAB' = encrypt(A, B, P, rr, ee)
    /\ pc' = "encryptedAB"
    /\ PolyFrame
    /\ UNCHANGED <<sum, product, prodStatus, rsum, rprod, hsum, hprod>>

PolyNext ==
    \/ Add
    \/ ReduceSum
    \/ ReducedOperandsSum
    \/ Mul
    \/ ReduceProduct
    \/ ReducedOperandsProduct
    \/ EncryptAB

PolySpec == PolyInit /\ [][PolyNext]_vars

(***************************************************************************)
(* Spec: the two programs.  The prototype generates a key pair, encrypts a *)
(* message under it and decrypts a ciphertext; main.cpp runs test_keygen   *)
(* and test_polynomial_operations.                                         *)
(***************************************************************************)
Init ==
    /\ ub = 0   \* never read: no operation on field elements overflows
    /\ P \in ParamSets /\ pc = "start"
    /\ validator \in {"placeholder", "reject_all"}
    /\ FieldIdle /\ PolyIdle /\ ProtoIdle /\ MainIdle

\* keygen: the two secret draws
keygen ==
    /\ pc = "start"
    /\ ux' \in random_polynomial(n - 1, l)
    /\ uy' \in random_polynomial(n - 1, l)
    /\ pc' = "generate_irreducible_X"
    /\ UNCHANGED <<ub, P, fieldVars, polyVars, validator, X, message, ciphertext,
                   encStatus, c_in, decrypted, decStatus, mainVars>>

\* one iteration of the while (true) loop: draw X, break when it is accepted
generate_irreducible_X ==
    /\ pc = "generate_irreducible_X"
    /\ \E candidate \in random_polynomial(dX, q - 1) :
          /\ X' = candidate
          /\ pc' = IF Accepts(candidate) THEN "keyed" ELSE "generate_irreducible_X"
    /\ UNCHANGED <<ub, P, fieldVars, polyVars, validator, ux, uy, message, ciphertext,
                   encStatus, c_in, decrypted, decStatus, mainVars>>

\* ciphertext = encrypt(message, X, P); no path of encrypt returns an error
Encrypt ==
    /\ pc = "keyed"
    /\ \E m \in Polys(MaxMsgLen, l) :
       \E rr \in random_polynomial(P.dr, P.q - 1) :
       \E ee \in random_polynomial(P.dX + P.dr, P.l - 1) :
          /\ message' = m
          /\ ciphertext' = encrypt(m, X, P, rr, ee)
    /\ encStatus' = "ok"
    /\ pc' = "encrypted"
    /\ UNCHANGED <<ub, P, fieldVars, polyVars, validator, ux, uy, X,
                   c_in, decrypted, decStatus, mainVars>>

\* decrypted = decrypt(ciphertext, ux, uy); no path of decrypt returns an error
Decrypt ==
    /\ pc = "encrypted"
    /\ c_in' = ciphertext
    /\ decrypted' = decrypt(ciphertext, ux, uy)
    /\ decStatus' = "ok"
    /\ pc' = "decrypted"
    /\ UNCHANGED <<ub, P, fieldVars, polyVars, validator, ux, uy, X,
                   message, ciphertext, encStatus, mainVars>>

\* decrypt called on a ciphertext received from elsewhere, of any length
DecryptReceived ==
    /\ pc = "keyed"
    /\ \E c \in Polys(MaxCtLen, q) :
          /\ c_in' = c
          /\ decrypted' = decrypt(c, ux, uy)
    /\ decStatus' = "ok"
    /\ pc' = "decrypted"
    /\ UNCHANGED <<ub, P, fieldVars, polyVars, validator, ux, uy, X,
                   message, ciphertext, encStatus, mainVars>>

\* main.cpp: test_keygen(params) with its two asserts
test_keygen ==
    /\ pc = "start"
    /\ \E params \in MainParamSets :
       \E k \in GiophantusKeyGen_generate(params) :
          /\ mparams' = params
          /\ key' = k
          /\ pc' = IF /\ degreeMain(k.ux) <= params.degree
                      /\ degreeMain(k.uy) <= params.degree
                   THEN "test_keygen_passed" ELSE "assert_failed"
    /\ UNCHANGED <<ub, P, fieldVars, polyVars, protoVars, p1, p2, msum, mproduct>>

\* main.cpp: test_polynomial_operations(params); the key of test_keygen is gone
test_polynomial_operations ==
    /\ pc = "test_keygen_passed"
    /\ key' = NoKey
    /\ \E a \in RandomPolynomialGenerator_generate(mparams.degree, mparams.noise_bound) :
       \E b \in RandomPolynomialGenerator_generate(mparams.degree, mparams.noise_bound) :
          /\ p1' = a
          /\ p2' = b
          /\ msum' = Polynomial_addMain(a, b)
          /\ mproduct' = Polynomial_mulMain(a, b)
    /\ pc' = "test_polynomial_operations_passed"
    /\ UNCHANGED <<ub, P, fieldVars, polyVars, protoVars, mparams>>

Next ==
    \/ keygen
    \/ generate_irreducible_X
    \/ Encrypt
    \/ Decrypt
    \/ DecryptReceived
    \/ test_keygen
    \/ test_polynomial_operations

Spec == Init /\ [][Next]_vars

(***************************************************************************)
(* FairSpec: key generation alone, every enabled step eventually taken     *)
(* (the call runs on one thread and nothing suspends it)                   *)
(***************************************************************************)
KeygenNext ==
    \/ keygen
    \/ generate_irreducible_X

FairSpec == Init /\ [][KeygenNext]_vars /\ WF_vars(KeygenNext)

(***************************************************************************)
(* C8  Field normalization range: every field-arithmetic routine returns a *)
(* value in [0, q) for every int a, b and every prime q, and mod(a, q) is  *)
(* congruent to a modulo q.                                                *)
(***************************************************************************)
FieldNormalizationRange ==
    fop # "none" =>
        /\ 0 <= fres /\ fres < fq
        /\ (fop \in {"mod", "FieldArithmetic::mod"} => (fres - fa) % fq = 0)

(***************************************************************************)
(* C5  Ring reduction is idempotent: mod_tn of the result of mod_tn is     *)
(* that result, coefficient for coefficient, whatever ints and however     *)
(* many of them the polynomial holds.                                      *)
(***************************************************************************)
ReductionIdempotent == pc = "reducedTwice" => reducedTwice = reduced

\* a polynomial longer than n, with a negative coefficient, whose fold
\* overflows int, has been reduced twice
ReductionIdempotentWitness ==
    /\ pc = "reducedTwice"
    /\ Len(A) > n
    /\ A[1] = IntMax /\ A[n + 1] = IntMax
    /\ A[2] = -1

(***************************************************************************)
(* C6  Every ciphertext encrypt returns has length exactly n, whatever the *)
(* lengths of the message and of the public key; and for A, B of length n  *)
(* mod_tn(A + B) and mod_tn(A * B) have length exactly n.                  *)
(***************************************************************************)
ReducedLengthIsN ==
    /\ pc = "encryptedAB" => Len(ctAB) = n
    /\ (pc \in {"sumReduced", "sumCompared"} /\ Len(A) = n /\ Len(B) = n)
          => Len(rsum) = n
    /\ (pc \in {"productReduced", "productCompared"} /\ Len(A) = n /\ Len(B) = n)
          => Len(rprod) = n

\* encrypt has returned for a message longer than n and a public key
\* shorter than n
ReducedLengthIsNWitness ==
    /\ pc = "encryptedAB"
    /\ Len(A) > n
    /\ Len(B) < n

(***************************************************************************)
(* C10  mod_tn is compatible with * and +: reducing the operands first     *)
(* gives the same reduced product and the same reduced sum, for non-empty  *)
(* A and B over the field; so the ciphertext of encrypt equals the one     *)
(* obtained by reducing message + public_key * r + e once, at the end.     *)
(***************************************************************************)
ReductionIsHomomorphism ==
    /\ (pc = "productCompared" /\ A # <<>> /\ B # <<>>) => hprod = rprod
    /\ (pc = "sumCompared" /\ A # <<>> /\ B # <<>>) => hsum = rsum
    /\ pc = "encryptedAB" =>
          ctAB = mod_tn(Polynomial_add(Polynomial_add(A, Polynomial_mul(B, r)), e))

\* A is longer than n, so reducing it folds coefficients, the product is
\* longer still, and the reduced product is not zero
ReductionIsHomomorphismWitness ==
    /\ pc = "productCompared"
    /\ Len(A) > n /\ Len(B) = n
    /\ A[Len(A)] # 0 /\ B[Len(B)] # 0
    /\ \E k \in 1..n : rprod[k] # 0

(***************************************************************************)
(* C7  Zero-polynomial boundary: the empty polynomial has degree -1, and   *)
(* with zero = A empty, for every B (empty too): zero + B equals B and     *)
(* zero * B equals zero after trimming, the multiplication returning       *)
(* normally a result of length len(zero) + len(B) - 1 clamped at 0.        *)
(***************************************************************************)
ZeroPolynomialBoundary ==
    /\ degree(<<>>) = -1
    /\ (A = <<>> /\ pc = "added") => trim(sum) = trim(B)
    /\ (A = <<>> /\ pc \in {"multiplied", "terminated"}) =>
          /\ prodStatus = "ok"
          /\ Len(product) = Max(Len(A) + Len(B) - 1, 0)
          /\ trim(product) = <<>>

(***************************************************************************)
(* C1  Round trip: decrypting the ciphertext encrypt returned for a        *)
(* message of length <= mlen with coefficients in [0, l), under a key      *)
(* keygen returned, gives the message back (both trimmed), whatever r and  *)
(* e encrypt drew.                                                         *)
(***************************************************************************)
RoundTrip ==
    (pc = "decrypted" /\ encStatus = "ok" /\ Len(message) <= P.mlen)
        => trim(decrypted) = trim(message)

DecryptRejectsWrongLength ==
    (pc = "decrypted" /\ Len(c_in) # n)
        => (decStatus = "InvalidCiphertextLength" /\ decrypted = <<>>)

(***************************************************************************)
(* C4  encrypt rejects a message longer than mlen: it returns              *)
(* InvalidMessageLength and no ciphertext.                                 *)
(***************************************************************************)
EncryptRejectsLongMessage ==
    (encStatus # "none" /\ Len(message) > P.mlen)
        => (encStatus = "InvalidMessageLength" /\ ciphertext = <<>>)

(***************************************************************************)
(* C9  Key-pair postcondition, for both key generators: ux and uy have     *)
(* degree <= n - 1 (main.cpp: <= degree) and coefficients in [0, l)        *)
(* (main.cpp: [0, noise_bound)); X has degree <= dX (main.cpp: <= degree)  *)
(* and, in the prototype, was accepted by the validator.                   *)
(***************************************************************************)
KeyPairPostcondition ==
    /\ pc \in {"keyed", "encrypted", "decrypted"} =>
          /\ degree(ux) <= n - 1 /\ degree(uy) <= n - 1
          /\ \A i \in 1..Len(ux) : ux[i] \in 0..(l - 1)
          /\ \A i \in 1..Len(uy) : uy[i] \in 0..(l - 1)
          /\ degree(X) <= dX
          /\ Accepts(X)
    /\ pc = "test_keygen_passed" =>
          /\ degreeMain(key.ux) <= mparams.degree
          /\ degreeMain(key.uy) <= mparams.degree
          /\ \A i \in 1..Len(key.ux) : key.ux[i] \in 0..(mparams.noise_bound - 1)
          /\ \A i \in 1..Len(key.uy) : key.uy[i] \in 0..(mparams.noise_bound - 1)
          /\ degreeMain(key.X) <= mparams.degree

====
